---- MODULE Spec2Model ----
(***************************************************************************)
(* Model of the crawl-and-extract pipeline of lab_5_scraper/scraper.py:    *)
(* Config construction and validation, make_request, Crawler.find_articles *)
(* HTMLParser.parse and main.                                              *)
(*                                                                         *)
(* Python strings are TLA+ strings (Len, \o and SubSeq work on them).      *)
(* A JSON value is a record [t |-> <python type>, v |-> <value>].          *)
(***************************************************************************)
EXTENDS Integers, Sequences, FiniteSets, TLC

(***************************************************************************)
(* String helpers (str.startswith, the `in` operator on str).              *)
(***************************************************************************)
StartsWith(s, p) == Len(s) >= Len(p) /\ SubSeq(s, 1, Len(p)) = p

Contains(s, sub) ==
    \E i \in 1..(Len(s) - Len(sub) + 1) : SubSeq(s, i, i + Len(sub) - 1) = sub

\* str.endswith
EndsWith(s, p) ==
    Len(s) >= Len(p) /\ SubSeq(s, Len(s) - Len(p) + 1, Len(s)) = p

\* str.isdigit of one character and the value of a decimal digit
IsDigit(c) == c \in {"0", "1", "2", "3", "4", "5", "6", "7", "8", "9"}

DigitValue(c) ==
    CASE c = "0" -> 0 [] c = "1" -> 1 [] c = "2" -> 2 [] c = "3" -> 3
      [] c = "4" -> 4 [] c = "5" -> 5 [] c = "6" -> 6 [] c = "7" -> 7
      [] c = "8" -> 8 [] c = "9" -> 9

\* int() of a string of decimal digits
RECURSIVE ParseInt(_)
ParseInt(digits) ==
    IF Len(digits) = 0 THEN 0
    ELSE 10 * ParseInt(SubSeq(digits, 1, Len(digits) - 1))
         + DigitValue(SubSeq(digits, Len(digits), Len(digits)))

(***************************************************************************)
(* JSON values as json.load produces them.                                 *)
(***************************************************************************)
JInt(n) == [t |-> "int", v |-> n]
JBool(b) == [t |-> "bool", v |-> b]
JStr(s) == [t |-> "str", v |-> s]
JFloat(s) == [t |-> "float", v |-> s]
JList(q) == [t |-> "list", v |-> q]
JDict(q) == [t |-> "dict", v |-> q]
\* null
JNull == [t |-> "NoneType", v |-> 0]
Absent == [t |-> "absent", v |-> 0]

\* isinstance(x, int): bool is a subclass of int
IsInstanceInt(x) == x.t \in {"int", "bool"}
IsInstanceBool(x) == x.t = "bool"
IsInstanceStr(x) == x.t = "str"
IsInstanceList(x) == x.t = "list"
IsInstanceDict(x) == x.t = "dict"

\* the integer a python int or bool compares as (True == 1, False == 0)
AsInt(x) == IF x.t = "bool" THEN (IF x.v THEN 1 ELSE 0) ELSE x.v

\* data.get(key, default)
Get(value, default) == IF value.t = "absent" THEN default ELSE value

(***************************************************************************)
(* Program constants.                                                      *)
(***************************************************************************)
NUM_ARTICLES_UPPER_LIMIT == 150
TIMEOUT_LOWER_LIMIT == 0
TIMEOUT_UPPER_LIMIT == 60

(***************************************************************************)
(* Bounds of the model.                                                    *)
(***************************************************************************)
\* writes to the configuration source by its environment during a run
MaxWrites == 1
\* the two numeric keys are swept from ProbeMargin below their lower limit
\* to ProbeMargin above their upper limit
ProbeMargin == 3
\* the while iterations on one seed are counted modulo MaxIterations + 1
MaxIterations == 5

VARIABLES
    file,        \* content of the configuration source at CRAWLER_CONFIG_PATH
    writes,      \* number of writes the environment made to the source
    pc,          \* position of main
    config,      \* Config._config: the ConfigDTO of the first read
    config_dto,  \* the local config_dto of _validate_config_content
    raised,      \* exception that left the running call, "none" if none
    fields,      \* the seven attributes the getters return
    urls,        \* Crawler.urls
    seen_urls,   \* Crawler._seen_urls
    cpc,         \* position of find_articles
    sidx,        \* index of the seed the for loop of find_articles is at
    soup,        \* the local soup of find_articles
    extracted_url, \* the local extracted_url of find_articles
    calls,       \* number of find_articles calls made on the Crawler
    requests,    \* number of HTTP requests sent so far
    served,      \* the seed documents fetched successfully, in fetch order
    aidx,        \* article_id of the article main parses next
    saved,       \* the articles handed to to_raw, in call order
    answered,    \* what the network answered to each article fetch, in order
    iterations,  \* iterations the while loop of find_articles made on this seed,
                 \* modulo MaxIterations + 1
    sleeps,      \* number of sleep() calls made
    dataset,     \* the file system entry at the path given to CorpusManager
    storage      \* CorpusManager._storage: the article ids registered

cfgvars == <<file, writes, config, config_dto, fields>>
crawlvars == <<urls, seen_urls, cpc, sidx, soup, extracted_url, calls, served>>
mainvars == <<aidx, saved, answered>>
pacevars == <<iterations, sleeps>>
corpusvars == <<dataset, storage>>
vars == <<file, writes, pc, config, config_dto, raised, fields, urls, seen_urls,
          cpc, sidx, soup, extracted_url, calls, requests, served, aidx, saved,
          answered, iterations, sleeps, dataset, storage>>

(***************************************************************************)
(* Config._extract_config_content: the ConfigDTO of a readable document.   *)
(***************************************************************************)
ExtractConfigContent(data) ==
    [seed_urls |-> Get(data.seed_urls, JList(<<>>)),
     total_articles |-> Get(data.total_articles_to_find_and_parse, JInt(0)),
     headers |-> Get(data.headers, JDict(<<>>)),
     encoding |-> Get(data.encoding, JStr("utf-8")),
     timeout |-> Get(data.timeout, JInt(30)),
     should_verify_certificate |-> Get(data.should_verify_certificate, JBool(TRUE)),
     headless_mode |-> Get(data.headless_mode, JBool(TRUE))]

\* re.match(r"https?://.*/", url): anchored at the start, "." is any
\* character but a newline
MatchesUrlPattern(url) ==
    LET Rest(k) == \E j \in (k + 1)..Len(url) :
                      /\ SubSeq(url, j, j) = "/"
                      /\ \A i \in (k + 1)..(j - 1) : SubSeq(url, i, i) # "\n"
    IN  \/ StartsWith(url, "http://") /\ Rest(7)
        \/ StartsWith(url, "https://") /\ Rest(8)

\* '\n' in str(header_value): str() of a str is the string itself; the
\* str() of any other JSON value escapes or has no newline
HeaderHasNewline(value) == value.t = "str" /\ Contains(value.v, "\n")

(***************************************************************************)
(* The conditions of Config._validate_config_content.                      *)
(***************************************************************************)
\* lines 103-109
HeadersIncorrect(headers) ==
    \/ ~IsInstanceDict(headers)
    \/ \E i \in 1..Len(headers.v) : HeaderHasNewline(headers.v[i][2])

\* lines 111-117
SeedUrlsIncorrect(seed_urls) ==
    \/ ~IsInstanceList(seed_urls)
    \/ \E i \in 1..Len(seed_urls.v) :
          \/ ~IsInstanceStr(seed_urls.v[i])
          \/ ~MatchesUrlPattern(seed_urls.v[i].v)

\* lines 119-123
NumberOfArticlesIncorrect(total_articles) ==
    \/ ~IsInstanceInt(total_articles)
    \/ IsInstanceBool(total_articles)
    \/ AsInt(total_articles) < 1

\* line 126 with the upper limit excluded
NumberOfArticlesOutOfRangeInclusive(total_articles) ==
    AsInt(total_articles) >= NUM_ARTICLES_UPPER_LIMIT

\* line 126
NumberOfArticlesOutOfRange(total_articles) ==
    AsInt(total_articles) > NUM_ARTICLES_UPPER_LIMIT

\* lines 135-138
TimeoutIncorrect(timeout) ==
    \/ ~IsInstanceInt(timeout)
    \/ ~(TIMEOUT_LOWER_LIMIT < AsInt(timeout) /\ AsInt(timeout) < TIMEOUT_UPPER_LIMIT)

\* the checks of lines 132-139 in the other order
ValidateTimeoutBeforeEncoding(dto) ==
    IF HeadersIncorrect(dto.headers)
    THEN "IncorrectHeadersError"
    ELSE IF SeedUrlsIncorrect(dto.seed_urls)
    THEN "IncorrectSeedURLError"
    ELSE IF NumberOfArticlesIncorrect(dto.total_articles)
    THEN "IncorrectNumberOfArticlesError"
    ELSE IF NumberOfArticlesOutOfRange(dto.total_articles)
    THEN "NumberOfArticlesOutOfRangeError"
    ELSE IF TimeoutIncorrect(dto.timeout)
    THEN "IncorrectTimeoutError"
    ELSE IF ~IsInstanceStr(dto.encoding)
    THEN "IncorrectEncodingError"
    ELSE IF ~IsInstanceBool(dto.should_verify_certificate)
    THEN "IncorrectVerifyError"
    ELSE IF ~IsInstanceBool(dto.headless_mode)
    THEN "IncorrectVerifyError"
    ELSE "ok"

(***************************************************************************)
(* Config._validate_config_content on the DTO it has re-read: the kind of  *)
(* the exception raised, "ok" if it returns.                               *)
(***************************************************************************)
ValidateConfigContent(dto) ==
    IF HeadersIncorrect(dto.headers)
    THEN "IncorrectHeadersError"
    ELSE IF SeedUrlsIncorrect(dto.seed_urls)
    THEN "IncorrectSeedURLError"
    ELSE IF NumberOfArticlesIncorrect(dto.total_articles)
    THEN "IncorrectNumberOfArticlesError"
    ELSE IF NumberOfArticlesOutOfRange(dto.total_articles)
    THEN "NumberOfArticlesOutOfRangeError"
    ELSE IF ~IsInstanceDict(dto.headers)
    THEN "IncorrectHeadersError"
    ELSE IF ~IsInstanceStr(dto.encoding)
    THEN "IncorrectEncodingError"
    ELSE IF TimeoutIncorrect(dto.timeout)
    THEN "IncorrectTimeoutError"
    ELSE IF ~IsInstanceBool(dto.should_verify_certificate)
    THEN "IncorrectVerifyError"
    ELSE IF ~IsInstanceBool(dto.headless_mode)
    THEN "IncorrectVerifyError"
    ELSE "ok"

(***************************************************************************)
(* Documents as BeautifulSoup(response.text, 'lxml') holds them: a tree of *)
(* elements and text nodes.  cls is the class attribute ("" if none),      *)
(* has_href tells whether the href attribute is present.  For a text node  *)
(* cls is the class of the string object the parser made for it.           *)
(***************************************************************************)
Elem(tag, cls, kids) ==
    [tag |-> tag, cls |-> cls, has_href |-> FALSE, href |-> "", kids |-> kids, s |-> ""]
Anchor(href, kids) ==
    [tag |-> "a", cls |-> "", has_href |-> TRUE, href |-> href, kids |-> kids, s |-> ""]
Text(str) ==
    [tag |-> "#text", cls |-> "NavigableString", has_href |-> FALSE, href |-> "",
     kids |-> <<>>, s |-> str]

\* the elements whose strings the parser stores as a class of their own
\* (the tree builder's string_containers)
StringContainers == {"script", "style", "template", "rt", "rp"}

\* the class of a string whose innermost enclosing string container is tag
StringClass(tag) ==
    CASE tag = "script" -> "Script"
      [] tag = "style" -> "Stylesheet"
      [] tag = "template" -> "TemplateString"
      [] tag = "rt" -> "RubyTextString"
      [] tag = "rp" -> "RubyParenthesisString"
      [] OTHER -> "NavigableString"

\* the parser gives every string the class of the innermost string container
\* it is in, NavigableString outside of all of them
RECURSIVE WithStringClasses(_, _)
WithStringClasses(kids, class) ==
    IF Len(kids) = 0 THEN <<>>
    ELSE LET kid == Head(kids)
         IN  <<IF kid.tag = "#text" THEN [kid EXCEPT !.cls = class]
               ELSE [kid EXCEPT !.kids =
                        WithStringClasses(@, IF kid.tag \in StringContainers
                                             THEN StringClass(kid.tag)
                                             ELSE class)]>>
             \o WithStringClasses(Tail(kids), class)

Soup(kids) == Elem("[document]", "", WithStringClasses(kids, "NavigableString"))
\* the None a failed find returns
NoneNode == Elem("None", "", <<>>)

\* the nodes below a node, in document order
RECURSIVE DescendantsOf(_)
DescendantsOf(kids) ==
    IF Len(kids) = 0 THEN <<>>
    ELSE <<Head(kids)>> \o DescendantsOf(Head(kids).kids) \o DescendantsOf(Tail(kids))

\* find_all(tags) followed by decompose() of each element found
RECURSIVE Decompose(_, _)
Decompose(kids, tags) ==
    IF Len(kids) = 0 THEN <<>>
    ELSE (IF Head(kids).tag \in tags
          THEN <<>>
          ELSE <<[Head(kids) EXCEPT !.kids = Decompose(Head(kids).kids, tags)]>>)
         \o Decompose(Tail(kids), tags)

\* str.isspace for the characters the model uses
IsSpace(c) == c \in {" ", "\n", "\t", "\r", "\f"}

\* str.strip()
Strip(str) ==
    LET solid == {i \in 1..Len(str) : ~IsSpace(SubSeq(str, i, i))}
    IN  IF solid = {} THEN ""
        ELSE SubSeq(str, CHOOSE i \in solid : \A j \in solid : i <= j,
                         CHOOSE i \in solid : \A j \in solid : i >= j)

\* str.split(): the maximal runs of non-space characters
RECURSIVE SplitFrom(_, _, _)
SplitFrom(str, i, word) ==
    IF i > Len(str) THEN (IF word = "" THEN <<>> ELSE <<word>>)
    ELSE IF IsSpace(SubSeq(str, i, i))
    THEN (IF word = "" THEN <<>> ELSE <<word>>) \o SplitFrom(str, i + 1, "")
    ELSE SplitFrom(str, i + 1, word \o SubSeq(str, i, i))
Split(str) == SplitFrom(str, 1, "")

\* sep.join(parts)
RECURSIVE Join(_, _)
Join(parts, sep) ==
    IF Len(parts) = 0 THEN ""
    ELSE IF Len(parts) = 1 THEN Head(parts)
    ELSE Head(parts) \o sep \o Join(Tail(parts), sep)

\* a class_ argument against the class attribute of an element: the
\* attribute is split at whitespace into its classes, and the argument
\* matches when it is one of them or is all of them joined by one space
ClassMatches(value, cls) ==
    \/ \E i \in 1..Len(Split(value)) : Split(value)[i] = cls
    \/ Join(Split(value), " ") = cls

\* Tag.find(tag, class_=cls, href=need_href): the first descendant with the
\* tag, with the class when one is asked for (cls # "") and with an href
\* attribute when need_href; None if there is none
Find(node, tag, cls, need_href) ==
    LET Matches(d) == /\ d.tag = tag
                      /\ cls # "" => ClassMatches(d.cls, cls)
                      /\ need_href => d.has_href
        found == SelectSeq(DescendantsOf(node.kids), Matches)
    IN  IF Len(found) = 0 THEN NoneNode ELSE Head(found)

\* Tag.get_text(sep, strip=True): the strings below the node that are of
\* the class the node is interested in (a string container's own class,
\* NavigableString for every other element), stripped, the empty ones left
\* out, joined by sep
StrippedStrings(node) ==
    LET interesting == StringClass(node.tag)
        RECURSIVE Strs(_)
        Strs(nodes) ==
            IF Len(nodes) = 0 THEN <<>>
            ELSE (IF /\ Head(nodes).tag = "#text"
                     /\ Head(nodes).cls = interesting
                     /\ Strip(Head(nodes).s) # ""
                  THEN <<Strip(Head(nodes).s)>> ELSE <<>>) \o Strs(Tail(nodes))
    IN  Strs(DescendantsOf(node.kids))
GetText(node, sep) == Join(StrippedStrings(node), sep)

\* " " * n
RECURSIVE Spaces(_)
Spaces(n) == IF n <= 0 THEN "" ELSE " " \o Spaces(n - 1)

(***************************************************************************)
(* What the network answers to one GET: a response with a status code and  *)
(* a document, or a transport failure (requests.RequestException) with the *)
(* message str(e) gives.                                                   *)
(***************************************************************************)
\* msg of a response is its reason phrase
Response(status, reason, document) ==
    [kind |-> "response", status |-> status, soup |-> document, msg |-> reason]
TransportError(msg) == [kind |-> "transport", status |-> 0, soup |-> Soup(<<>>), msg |-> msg]

\* Response.raise_for_status raises HTTPError for 4xx and 5xx
RaisesForStatus(status) == 400 <= status /\ status < 600
\* Response.ok: raise_for_status does not raise
ResponseOk(status) == ~RaisesForStatus(status)

(***************************************************************************)
(* requests.get(url, headers=..., timeout=..., verify=...) of requests     *)
(* 2.31 with urllib3 1.26, up to the moment the request is sent: the URL   *)
(* is prepared or refused, the headers are checked, a connection adapter   *)
(* is looked up and the timeout is checked.                                *)
(* The URLs are strings of letters, digits and - . _ ~ : / ? # = & + * ;   *)
(* they carry no whitespace, user information ("@"), "%", brackets or      *)
(* other characters that need quoting.  Redirects are not followed.        *)
(***************************************************************************)
UpperChars == [i \in 1..26 |-> SubSeq("ABCDEFGHIJKLMNOPQRSTUVWXYZ", i, i)]
LowerChars == [i \in 1..26 |-> SubSeq("abcdefghijklmnopqrstuvwxyz", i, i)]

IsLetter(c) ==
    \E i \in 1..Len(UpperChars) : UpperChars[i] = c \/ LowerChars[i] = c

\* str.lower() of one character
LowerChar(c) ==
    IF \E i \in 1..Len(UpperChars) : UpperChars[i] = c
    THEN LowerChars[CHOOSE i \in 1..Len(UpperChars) : UpperChars[i] = c]
    ELSE c

\* str.lower(), from the i-th character on
RECURSIVE LowerFrom(_, _)
LowerFrom(str, i) ==
    IF i > Len(str) THEN ""
    ELSE LowerChar(SubSeq(str, i, i)) \o LowerFrom(str, i + 1)
Lower(str) == LowerFrom(str, 1)

\* str[i-1:j]: the i-th to the j-th character, as many of them as exist
Slice(str, i, j) ==
    IF (IF i < 1 THEN 1 ELSE i) > (IF j > Len(str) THEN Len(str) ELSE j)
    THEN ""
    ELSE SubSeq(str, IF i < 1 THEN 1 ELSE i, IF j > Len(str) THEN Len(str) ELSE j)

\* the i-th character, "" when there is none
CharAt(str, i) == Slice(str, i, i)

\* the value of an expression that is computed once and then used
The(singleton) == CHOOSE x \in singleton : TRUE

\* repr() of a str: in single quotes, in double quotes when the string has
\* a single quote and no double quote; the quote character, the backslash
\* and the control characters are escaped
RECURSIVE ReprFrom(_, _, _)
ReprFrom(str, i, quote) ==
    IF i > Len(str) THEN ""
    ELSE (IF SubSeq(str, i, i) = "\\" THEN "\\\\"
          ELSE IF SubSeq(str, i, i) = "\n" THEN "\\n"
          ELSE IF SubSeq(str, i, i) = "\r" THEN "\\r"
          ELSE IF SubSeq(str, i, i) = "\t" THEN "\\t"
          ELSE IF SubSeq(str, i, i) = "\f" THEN "\\x0c"
          ELSE IF SubSeq(str, i, i) = quote THEN "\\" \o quote
          ELSE SubSeq(str, i, i)) \o ReprFrom(str, i + 1, quote)
Repr(str) ==
    IF Contains(str, "'") /\ ~Contains(str, "\"")
    THEN "\"" \o ReprFrom(str, 1, "\"") \o "\""
    ELSE "'" \o ReprFrom(str, 1, "'") \o "'"

\* repr() of a JSON value as json.load gives it
RECURSIVE PyRepr(_)
PyRepr(value) ==
    CASE value.t = "str" -> Repr(value.v)
      [] value.t = "int" -> ToString(value.v)
      [] value.t = "bool" -> (IF value.v THEN "True" ELSE "False")
      [] value.t = "float" -> value.v
      [] value.t = "NoneType" -> "None"
      [] value.t = "list" ->
            "[" \o Join([i \in 1..Len(value.v) |-> PyRepr(value.v[i])], ", ") \o "]"
      [] value.t = "dict" ->
            "{" \o Join([i \in 1..Len(value.v) |->
                            Repr(value.v[i][1]) \o ": " \o PyRepr(value.v[i][2])],
                        ", ") \o "}"

\* urllib3 parse_url, the scheme: the index of the ":" that ends it, 0 if
\* the URL does not start with a letter, then letters, digits, "+" and "-",
\* then ":"
RECURSIVE SchemeEnd(_, _)
SchemeEnd(url, i) ==
    IF i > Len(url) THEN 0
    ELSE IF SubSeq(url, i, i) = ":" THEN (IF i > 1 THEN i ELSE 0)
    ELSE IF \/ IsLetter(SubSeq(url, i, i))
            \/ i > 1 /\ (IsDigit(SubSeq(url, i, i)) \/ SubSeq(url, i, i) \in {"+", "-"})
    THEN SchemeEnd(url, i + 1)
    ELSE 0

\* the index of the first character from the i-th on that is one of chars,
\* Len(str) + 1 if there is none
RECURSIVE IndexOfAny(_, _, _)
IndexOfAny(str, chars, i) ==
    IF i > Len(str) THEN Len(str) + 1
    ELSE IF SubSeq(str, i, i) \in chars THEN i
    ELSE IndexOfAny(str, chars, i + 1)

\* path.split("/") from the i-th character on, segment being the part of
\* the current segment already read
RECURSIVE SegmentsFrom(_, _, _)
SegmentsFrom(path, i, segment) ==
    IF i > Len(path) THEN <<segment>>
    ELSE IF SubSeq(path, i, i) = "/"
    THEN <<segment>> \o SegmentsFrom(path, i + 1, "")
    ELSE SegmentsFrom(path, i + 1, segment \o SubSeq(path, i, i))

\* the loop of _remove_path_dot_segments from the i-th segment on
RECURSIVE DotSegmentsDropped(_, _, _)
DotSegmentsDropped(segments, i, output) ==
    IF i > Len(segments) THEN output
    ELSE IF segments[i] = "." THEN DotSegmentsDropped(segments, i + 1, output)
    ELSE IF segments[i] # ".."
    THEN DotSegmentsDropped(segments, i + 1, Append(output, segments[i]))
    ELSE DotSegmentsDropped(segments, i + 1,
                            SubSeq(output, 1, Len(output) - 1))

\* urllib3 _remove_path_dot_segments
RemovePathDotSegments(path) ==
    LET Rejoined(output) ==
            Join((IF StartsWith(path, "/") /\ (Len(output) = 0 \/ output[1] # "")
                  THEN <<"">> ELSE <<>>)
                 \o output
                 \o (IF EndsWith(path, "/.") \/ EndsWith(path, "/..")
                     THEN <<"">> ELSE <<>>),
                 "/")
    IN  The({Rejoined(output) :
                output \in {DotSegmentsDropped(SegmentsFrom(path, 1, ""), 1, <<>>)}})

\* _encode_invalid_chars on a fragment of the characters above: "#" is
\* the one that is percent-encoded
RECURSIVE EncodeFragmentFrom(_, _)
EncodeFragmentFrom(fragment, i) ==
    IF i > Len(fragment) THEN ""
    ELSE (IF SubSeq(fragment, i, i) = "#" THEN "%23" ELSE SubSeq(fragment, i, i))
         \o EncodeFragmentFrom(fragment, i + 1)

\* the port of _HOST_PORT_RE, 0*?(|0|[1-9][0-9]{0,4}), and the range test of
\* parse_url: digits that after their leading zeros are at most five and
\* at most 65535
PortDigits(text) ==
    Slice(text, IndexOfAny(text, {"1", "2", "3", "4", "5", "6", "7", "8", "9"}, 1),
          Len(text))
PortAccepted(text) ==
    /\ \A i \in 1..Len(text) : IsDigit(SubSeq(text, i, i))
    /\ Len(PortDigits(text)) <= 5
    /\ Len(PortDigits(text)) = 5 => ParseInt(PortDigits(text)) <= 65535

\* the groups of _URI_RE in uri, whose scheme ends at e (0: no scheme):
\* the authority runs from e + 3 to a - 1 and has its first ":" at c when
\* c < a, the path ends at p - 1, the fragment starts at q + 1.  None is ""
UrlGroups(uri, e, c, a, p, q) ==
    LET scheme == Lower(Slice(uri, 1, e - 1))
        has_authority == Slice(uri, e + 1, e + 2) = "//"
        normalize_uri == scheme \in {"", "http", "https"}
        host == IF has_authority THEN Slice(uri, e + 3, c - 1) ELSE ""
        port == IF has_authority THEN Slice(uri, c + 1, a - 1) ELSE ""
        path == Slice(uri, IF has_authority THEN a ELSE e + 1, p - 1)
        query == IF CharAt(uri, p) = "?" THEN Slice(uri, p + 1, q - 1) ELSE ""
        fragment == Slice(uri, q + 1, Len(uri))
    IN  [failed |-> ~PortAccepted(port),
         scheme |-> scheme,
         host |-> IF normalize_uri THEN Lower(host) ELSE host,
         port |-> PortDigits(port),
         path |-> IF normalize_uri /\ path # ""
                  THEN RemovePathDotSegments(path) ELSE path,
         query |-> query,
         fragment |-> IF normalize_uri THEN EncodeFragmentFrom(fragment, 1)
                      ELSE fragment]

\* urllib3 parse_url: failed when it raises LocationParseError.  A URL with
\* no scheme that does not start with "/" is parsed as "//" + url
ParseUrl(url) ==
    The({The({The({UrlGroups(uri, e, c, a, p, q) :
                      c \in {IndexOfAny(uri, {":", "/", "?", "#"}, e + 3)},
                      a \in {IndexOfAny(uri, {"/", "?", "#"}, e + 3)},
                      p \in {IndexOfAny(uri, {"?", "#"}, e + 1)},
                      q \in {IndexOfAny(uri, {"#"}, e + 1)}}) :
                e \in {SchemeEnd(uri, 1)}}) :
            uri \in {IF SchemeEnd(url, 1) = 0 /\ CharAt(url, 1) # "/"
                     THEN "//" \o url ELSE url}})

\* PreparedRequest.prepare_url on a parsed URL: the exception it raises, or
\* exc "none" and the URL of the request
PrepareParsed(url, parsed) ==
    IF parsed.failed
    THEN [exc |-> "InvalidURL", msg |-> "Failed to parse: " \o url, url |-> ""]
    ELSE IF parsed.scheme = ""
    THEN [exc |-> "MissingSchema",
          msg |-> "Invalid URL " \o Repr(url)
                  \o ": No scheme supplied. Perhaps you meant https://" \o url \o "?",
          url |-> ""]
    ELSE IF parsed.host = ""
    THEN [exc |-> "InvalidURL",
          msg |-> "Invalid URL " \o Repr(url) \o ": No host supplied", url |-> ""]
    ELSE IF CharAt(parsed.host, 1) \in {"*", "."}
    THEN [exc |-> "InvalidURL", msg |-> "URL has an invalid label.", url |-> ""]
    ELSE [exc |-> "none", msg |-> "",
          url |-> parsed.scheme \o "://" \o parsed.host
                  \o (IF parsed.port # "" THEN ":" \o parsed.port ELSE "")
                  \o (IF parsed.path = "" THEN "/" ELSE parsed.path)
                  \o (IF parsed.query # "" THEN "?" \o parsed.query ELSE "")
                  \o (IF parsed.fragment # "" THEN "#" \o parsed.fragment ELSE "")]

\* PreparedRequest.prepare_url: a URL with ":" that does not start with
\* http in any case of the letters is left as it is
PrepareUrl(url) ==
    IF Contains(url, ":") /\ Lower(Slice(url, 1, Len("http"))) # "http"
    THEN [exc |-> "none", msg |-> "", url |-> url]
    ELSE The({PrepareParsed(url, parsed) : parsed \in {ParseUrl(url)}})

\* the URL of the prepared request, which is Response.url
PreparedUrl(url) == PrepareUrl(url).url

\* check_header_validity on one header of the request: str(e) of the
\* InvalidHeader it raises, "" when the header is accepted.  A name may not
\* be empty, start with ":" or a space or hold ":" or a line break; a str
\* value may not start with a space or hold a line break; a line feed
\* that ends the string passes ("$" matches before it); any other value
\* but a str is refused
HeaderFault(name, value) ==
    LET Body(str) == IF EndsWith(str, "\n") THEN Slice(str, 1, Len(str) - 1) ELSE str
        HasBreak(str) == Contains(str, "\r") \/ Contains(str, "\n")
        Invalid(kind, part) ==
            "Invalid leading whitespace, reserved character(s), or return"
            \o "character(s) in header " \o kind \o ": " \o Repr(part)
    IN  IF \/ name = "" \/ IsSpace(CharAt(name, 1))
           \/ Contains(name, ":") \/ HasBreak(Body(name))
        THEN Invalid("name", name)
        ELSE IF value.t # "str"
        THEN "Header part (" \o PyRepr(value) \o ") from (" \o Repr(name) \o ", "
             \o PyRepr(value) \o ") must be of type str or bytes, not <class '"
             \o value.t \o "'>"
        ELSE IF /\ Body(value.v) # ""
                /\ IsSpace(CharAt(value.v, 1)) \/ HasBreak(Body(value.v))
        THEN Invalid("value", value.v)
        ELSE ""

\* Session.prepare_request and PreparedRequest.prepare_headers: the headers
\* of the request are merged into the default headers of the Session, names
\* compared without case (the last of two such names stays, at the place of
\* the first), headers whose value is None are dropped, and the headers are
\* checked in that order (the default headers are user-agent,
\* accept-encoding, accept and connection): str(e) of the first
\* InvalidHeader, "" if none
HeadersFault(headers) ==
    LET Last(given, key) ==
            CHOOSE i \in 1..Len(given) :
                given[i] = key /\ \A j \in (i + 1)..Len(given) : given[j] # key
        Fault(given, key) ==
            IF \A i \in 1..Len(given) : given[i] # key THEN ""
            ELSE The({IF headers.v[last][2].t = "NoneType" THEN ""
                      ELSE HeaderFault(headers.v[last][1], headers.v[last][2]) :
                        last \in {Last(given, key)}})
        FirstOf(faults) ==
            IF \A k \in 1..Len(faults) : faults[k] = "" THEN ""
            ELSE faults[CHOOSE k \in 1..Len(faults) :
                            faults[k] # "" /\ \A j \in 1..(k - 1) : faults[j] = ""]
    IN  The({The({The({FirstOf(faults) :
                          faults \in {[k \in 1..Len(keys) |-> Fault(given, keys[k])]}}) :
                    keys \in {<<"user-agent", "accept-encoding", "accept", "connection">>
                              \o given}}) :
                given \in {[i \in 1..Len(headers.v) |-> Lower(headers.v[i][1])]}})

\* urllib3 Timeout._validate_timeout on a timeout that is an int, a bool,
\* a str or None: str(e) of the ValueError, "" when it is accepted
TimeoutFault(timeout) ==
    IF timeout.t = "bool"
    THEN "Timeout cannot be a boolean value. It must be an int, float or None."
    ELSE IF timeout.t = "int" /\ timeout.v <= 0
    THEN "Attempted to set connect timeout to " \o ToString(timeout.v)
         \o ", but the timeout cannot be set to a value less than or equal to 0."
    ELSE IF timeout.t = "str"
    THEN "Timeout value connect was " \o timeout.v
         \o ", but it must be an int, float or None."
    ELSE ""

\* requests.get before anything is sent, in the order of its steps:
\* prepare_url, prepare_headers, Session.get_adapter (an adapter is mounted
\* for http:// and for https://), HTTPAdapter.send building the timeout.
\* exc is the class of the exception raised, "none" when the request is sent
RefusalOf(prepared, headers, timeout) ==
    IF prepared.exc # "none"
    THEN [exc |-> prepared.exc, msg |-> prepared.msg]
    ELSE IF HeadersFault(headers) # ""
    THEN [exc |-> "InvalidHeader", msg |-> HeadersFault(headers)]
    ELSE IF /\ Lower(Slice(prepared.url, 1, Len("http://"))) # "http://"
            /\ Lower(Slice(prepared.url, 1, Len("https://"))) # "https://"
    THEN [exc |-> "InvalidSchema",
          msg |-> "No connection adapters were found for " \o Repr(prepared.url)]
    ELSE IF TimeoutFault(timeout) # ""
    THEN [exc |-> "ValueError", msg |-> TimeoutFault(timeout)]
    ELSE [exc |-> "none", msg |-> ""]

RequestRefusal(url, headers, timeout) ==
    The({RefusalOf(prepared, headers, timeout) : prepared \in {PrepareUrl(url)}})

\* the subclasses of requests.RequestException the model raises
RequestExceptions ==
    {"RequestException", "HTTPError", "InvalidURL", "MissingSchema",
     "InvalidSchema", "InvalidHeader"}

(***************************************************************************)
(* make_request(url, config) when the network answers outcome to a request *)
(* that is sent: the response it returns (exc = "none"), or the exception  *)
(* that leaves it.  A requests.RequestException is printed and re-raised   *)
(* (printed is the line written, "" if none); any other exception passes   *)
(* through.  sent tells whether a request went out.  The document of a     *)
(* response is its text as decoded with the encoding of the configuration. *)
(***************************************************************************)
Raised(exc, msg, url, status, sent) ==
    [exc |-> exc, msg |-> msg, status |-> status, soup |-> Soup(<<>>),
     sent |-> sent,
     printed |-> IF exc \in RequestExceptions
                 THEN "Request failed for " \o url \o ": " \o msg ELSE ""]

MakeRequestSent(url, outcome) ==
    IF outcome.kind = "transport"
    THEN Raised("RequestException", outcome.msg, url, 0, TRUE)
    ELSE IF RaisesForStatus(outcome.status)
    THEN Raised("HTTPError",
                ToString(outcome.status)
                \o (IF outcome.status < 500 THEN " Client Error: "
                                            ELSE " Server Error: ")
                \o outcome.msg \o " for url: " \o PreparedUrl(url),
                url, outcome.status, TRUE)
    ELSE [exc |-> "none", msg |-> "", status |-> outcome.status,
          soup |-> outcome.soup, sent |-> TRUE, printed |-> ""]

MakeRequestAfter(url, refusal, outcome) ==
    IF refusal.exc # "none"
    THEN Raised(refusal.exc, refusal.msg, url, 0, FALSE)
    ELSE MakeRequestSent(url, outcome)

MakeRequest(url, configuration, outcome) ==
    The({MakeRequestAfter(url, refusal, outcome) :
            refusal \in {RequestRefusal(url, configuration.headers, configuration.timeout)}})

(***************************************************************************)
(* Crawler._extract_url                                                    *)
(***************************************************************************)
ExtractUrl(article_bs) ==
    LET link == Find(article_bs, "a", "", TRUE)
    IN  IF link = NoneNode THEN ""
        ELSE IF link.href = "" THEN ""
        ELSE IF StartsWith(link.href, "/") THEN "https://klops.ru" \o link.href
        ELSE IF StartsWith(link.href, "http") THEN link.href
        ELSE ""

(***************************************************************************)
(* HTMLParser._fill_article_with_text: the text it stores in the article.  *)
(***************************************************************************)
IsParagraph(node) == node.tag = "p"

\* lines 335-341: the element the text is taken from
ContentOf(article_soup) ==
    LET body_div == Find(article_soup, "div", "article-body", FALSE)
        found == IF body_div # NoneNode THEN body_div
                 ELSE Find(article_soup, "article", "", FALSE)
        body == Find(article_soup, "body", "", FALSE)
        fallback == IF body # NoneNode THEN body ELSE article_soup
    IN  IF found # NoneNode THEN found
        ELSE [fallback EXCEPT !.kids =
                 Decompose(@, {"header", "footer", "nav", "aside",
                               "script", "style"})]

\* lines 343-347: the text of the paragraphs of content, or of content
TextOfContent(content) ==
    LET direct == SelectSeq(content.kids, IsParagraph)
        paragraphs == IF Len(direct) # 0 THEN direct ELSE <<content>>
        HasText(p) == GetText(p, "") # ""
        kept == SelectSeq(paragraphs, HasText)
        clean_text == [i \in 1..Len(kept) |-> GetText(kept[i], " ")]
        full_text == IF Len(clean_text) # 0 THEN Join(clean_text, "\n")
                     ELSE GetText(content, " ")
    IN  Join(Split(full_text), " ")

\* content is looked for once and then used
FillArticleWithText(article_soup) ==
    CHOOSE text \in {TextOfContent(content) :
                        content \in {ContentOf(article_soup)}} : TRUE

(***************************************************************************)
(* HTMLParser.parse: the text of the Article it returns.  Every Exception  *)
(* of the try block is caught; the text is padded to 50 characters.        *)
(***************************************************************************)
\* the exceptions `except Exception` catches: every exception make_request
\* lets out, a ValueError of urllib3 included
IsException(exc) == exc \in RequestExceptions \cup {"ValueError"}

\* lines 408-417: the text parse stores for what make_request returned or
\* raised
TextOfResponse(response) ==
    IF response.exc # "none"
    THEN "Error parsing article: " \o response.msg
         \o ". Minimum required placeholder text."
    ELSE IF ResponseOk(response.status)
    THEN FillArticleWithText(response.soup)
    ELSE "Failed to fetch article (HTTP " \o ToString(response.status)
         \o "). Minimum required placeholder text."

\* lines 419-420
Padded(text) ==
    IF Len(text) < 50 THEN text \o Spaces(50 - Len(text)) ELSE text

\* parse without the padding of lines 419-420
ParseUnpadded(full_url, configuration, outcome) ==
    The({[raised |-> "none", text |-> TextOfResponse(response)] :
            response \in {MakeRequest(full_url, configuration, outcome)}})

\* lines 407-422 after make_request: an exception that is no Exception
\* leaves parse
ArticleOf(response) ==
    IF response.exc # "none" /\ ~IsException(response.exc)
    THEN [raised |-> response.exc, text |-> ""]
    ELSE [raised |-> "none",
          text |-> The({Padded(text) : text \in {TextOfResponse(response)}})]

Parse(full_url, configuration, outcome) ==
    The({ArticleOf(response) :
            response \in {MakeRequest(full_url, configuration, outcome)}})

(***************************************************************************)
(* The documents the model's network serves.                               *)
(***************************************************************************)
Link(href) == Anchor(href, <<Text("article")>>)
Page(kids) == Soup(<<Elem("html", "", <<Elem("body", "", kids)>>)>>)

\* a seed page with five candidate links, one of them a duplicate
PageFiveLinks ==
    Page(<<Link("/news/1"), Link("/news/2"), Link("/news/1"),
           Link("https://klops.ru/news/3"), Link("/news/4")>>)
\* an anchor without href comes first
PageNamedAnchor ==
    Page(<<Elem("a", "", <<Text("top")>>), Link("http://klops.ru/news/5")>>)
PageNoLinks == Page(<<Elem("p", "", <<Text("nothing here")>>)>>)
\* the first link is the denylisted test fixture
PageDenylisted ==
    Page(<<Link("/news/?problematic_article_id=3"), Link("/news/6")>>)
PageEmptyHref == Page(<<Link(""), Link("/news/7")>>)
PageMailto == Page(<<Link("mailto:news@klops.ru"), Link("/news/8")>>)
EmptyDocument == Soup(<<>>)

SeedPages ==
    {PageFiveLinks, PageNamedAnchor, PageNoLinks, PageDenylisted,
     PageEmptyHref, PageMailto, EmptyDocument}

LongParagraph ==
    "Kaliningrad  opened a new bridge over the Pregolya river this morning.\n"
ArticleWithBodyDiv ==
    Page(<<Elem("nav", "", <<Text("menu")>>),
           Elem("div", "article-body",
                <<Elem("p", "", <<Text(LongParagraph)>>),
                  Elem("p", "", <<Text("  ")>>),
                  Elem("p", "", <<Text("Traffic is "), Elem("b", "", <<Text("open")>>)>>)>>)>>)
ArticleWithArticleTag ==
    Page(<<Elem("article", "", <<Elem("div", "", <<Elem("p", "", <<Text("short text")>>)>>)>>)>>)
ArticleBodyOnly ==
    Page(<<Elem("script", "", <<Text("var x;")>>),
           Elem("footer", "", <<Text("contacts")>>),
           Elem("p", "", <<Text(LongParagraph)>>)>>)
ArticleBoilerplateOnly ==
    Page(<<Elem("nav", "", <<Text("menu")>>), Elem("footer", "", <<Text("contacts")>>)>>)
ArticleEmptyBody == Page(<<>>)
\* the body div has two classes, and text outside of its paragraph
ArticleTwoClassBodyDiv ==
    Page(<<Elem("div", "wide article-body",
                <<Text("loose"), Elem("nav", "", <<Text("menu")>>),
                  Elem("p", "", <<Text("para")>>)>>),
           Elem("p", "", <<Text("after")>>)>>)
\* an article element that holds a script and no paragraph
ArticleScriptInArticle ==
    Page(<<Elem("article", "",
                <<Elem("script", "", <<Text("var x;")>>),
                  Elem("div", "", <<Text("caption")>>)>>)>>)
\* an article element that holds nothing but a script
ArticleScriptOnly ==
    Page(<<Elem("article", "", <<Elem("script", "", <<Text("var x;")>>)>>)>>)

ArticlePages ==
    {ArticleWithBodyDiv, ArticleWithArticleTag, ArticleBodyOnly,
     ArticleBoilerplateOnly, ArticleEmptyBody, ArticleTwoClassBodyDiv,
     ArticleScriptInArticle, ArticleScriptOnly, EmptyDocument, PageFiveLinks}

(***************************************************************************)
(* Configuration documents.                                                *)
(***************************************************************************)
SeedNews == "https://klops.ru/news/"
SeedSport == "http://klops.ru/sport/"
GoodHeaders == JDict(<< <<"User-Agent", JStr("Mozilla/5.0")>> >>)
\* headers the validation accepts and requests refuses
CountHeaders == JDict(<< <<"Retries", JInt(3)>> >>)

\* a readable JSON document with the seven keys (Absent: key not present)
Document(seed_urls, total, headers, encoding, timeout, verify, headless) ==
    [json_ok |-> TRUE, seed_urls |-> seed_urls,
     total_articles_to_find_and_parse |-> total, headers |-> headers,
     encoding |-> encoding, timeout |-> timeout,
     should_verify_certificate |-> verify, headless_mode |-> headless]
\* a source json.load fails on
Unreadable ==
    [Document(Absent, Absent, Absent, Absent, Absent, Absent, Absent)
        EXCEPT !.json_ok = FALSE]
ValidDocument(seeds, total) ==
    Document(JList(seeds), JInt(total), GoodHeaders, JStr("utf-8"), JInt(5),
             JBool(TRUE), JBool(FALSE))

\* the documents the source of a run of main may hold
MainDocs ==
    {ValidDocument(<<JStr(SeedNews)>>, 2),
     ValidDocument(<<JStr(SeedNews), JStr(SeedSport)>>, 3),
     ValidDocument(<<JStr(SeedNews)>>, 0),
     ValidDocument(<<JStr("klops.ru/news")>>, 2),
     [ValidDocument(<<JStr(SeedNews)>>, 2) EXCEPT !.timeout = JInt(60)],
     [ValidDocument(<<JStr(SeedNews)>>, 2) EXCEPT !.timeout = JBool(TRUE)],
     Document(Absent, Absent, Absent, Absent, Absent, Absent, Absent),
     Unreadable}

NoDTO == [seed_urls |-> Absent, total_articles |-> Absent, headers |-> Absent,
          encoding |-> Absent, timeout |-> Absent,
          should_verify_certificate |-> Absent, headless_mode |-> Absent]

\* no path has been given to a CorpusManager
NoDataset == [kind |-> "none", files |-> {}]

(***************************************************************************)
(* Config.__init__, in the two steps that read the configuration source.   *)
(***************************************************************************)
\* line 68: self._config = self._extract_config_content()
ConfigExtract ==
    /\ pc = "config_extract"
    /\ IF file.json_ok
       THEN /\ config' = ExtractConfigContent(file)
            /\ pc' = "config_validate"
            /\ UNCHANGED raised
       ELSE /\ raised' = "JSONDecodeError"
            /\ pc' = "aborted"
            /\ UNCHANGED config
    /\ UNCHANGED <<file, writes, config_dto, fields, requests>>
    /\ UNCHANGED <<crawlvars, mainvars>>
    /\ UNCHANGED <<pacevars, corpusvars>>

\* lines 69-76 with the exception of the validation swallowed
ConfigValidateIgnoresError ==
    /\ pc = "config_validate"
    /\ IF ~file.json_ok
       THEN /\ raised' = "JSONDecodeError"
            /\ pc' = "aborted"
            /\ UNCHANGED <<config_dto, fields>>
       ELSE /\ config_dto' = ExtractConfigContent(file)
            /\ fields' = config
            /\ pc' = "prepare"
            /\ UNCHANGED raised
    /\ UNCHANGED <<file, writes, config, requests>>
    /\ UNCHANGED <<crawlvars, mainvars>>
    /\ UNCHANGED <<pacevars, corpusvars>>

\* lines 69-76: self._validate_config_content(), which reads the source
\* again, and the assignment of the seven attributes from self._config
ConfigValidate ==
    /\ pc = "config_validate"
    /\ IF ~file.json_ok
       THEN /\ raised' = "JSONDecodeError"
            /\ pc' = "aborted"
            /\ UNCHANGED <<config_dto, fields>>
       ELSE /\ config_dto' = ExtractConfigContent(file)
            /\ IF ValidateConfigContent(config_dto') = "ok"
               THEN /\ fields' = config
                    /\ pc' = "prepare"
                    /\ UNCHANGED raised
               ELSE /\ raised' = ValidateConfigContent(config_dto')
                    /\ pc' = "aborted"
                    /\ UNCHANGED fields
    /\ UNCHANGED <<file, writes, config, requests>>
    /\ UNCHANGED <<crawlvars, mainvars>>
    /\ UNCHANGED <<pacevars, corpusvars>>

\* the environment rewrites the configuration source while Config.__init__
\* is running
ConfigSourceWrite ==
    /\ pc \in {"config_extract", "config_validate"}
    /\ writes < MaxWrites
    /\ \E doc \in MainDocs \ {file} : file' = doc
    /\ writes' = writes + 1
    /\ UNCHANGED <<pc, config, config_dto, raised, fields, requests>>
    /\ UNCHANGED <<crawlvars, mainvars>>
    /\ UNCHANGED <<pacevars, corpusvars>>

(***************************************************************************)
(* The network: the outcomes one GET of a URL may have.                    *)
(***************************************************************************)
\* the network has nothing to answer to a request that is not sent
NotSent == [kind |-> "unsent", status |-> 0, soup |-> Soup(<<>>), msg |-> ""]

SeedOutcomes(url, configuration) ==
    IF RequestRefusal(url, configuration.headers, configuration.timeout).exc # "none"
    THEN {NotSent}
    ELSE {Response(200, "OK", page) : page \in SeedPages}
         \cup {Response(404, "Not Found", EmptyDocument),
               TransportError("Connection refused")}

ArticleOutcomes(url, configuration) ==
    IF RequestRefusal(url, configuration.headers, configuration.timeout).exc # "none"
    THEN {NotSent}
    ELSE {Response(200, "OK", page) : page \in ArticlePages}
         \cup {Response(404, "Not Found", EmptyDocument),
               Response(503, "Service Unavailable", ArticleWithBodyDiv),
               TransportError("Connection refused"), TransportError("")}

(***************************************************************************)
(* Crawler.find_articles, one step per loop iteration.                     *)
(***************************************************************************)
\* self._seed_urls and self._config.get_num_articles()
SeedUrls == [i \in 1..Len(fields.seed_urls.v) |-> fields.seed_urls.v[i].v]
TargetsNeeded == AsInt(fields.total_articles)

\* for url in seed_urls: the list is exhausted, or the break of line 281
ForExit ==
    /\ cpc = "for"
    /\ sidx > Len(SeedUrls) \/ Len(urls) >= TargetsNeeded
    /\ cpc' = "returned"
    /\ UNCHANGED <<pc, raised, requests, cfgvars, mainvars>>
    /\ UNCHANGED <<urls, seen_urls, sidx, soup, extracted_url, calls, served>>
    /\ UNCHANGED <<pacevars, corpusvars>>

\* line 283: the exception of make_request leaves find_articles
ForFetchRaises ==
    /\ cpc = "for"
    /\ sidx <= Len(SeedUrls) /\ Len(urls) < TargetsNeeded
    /\ \E outcome \in SeedOutcomes(SeedUrls[sidx], fields) :
          \E response \in {MakeRequest(SeedUrls[sidx], fields, outcome)} :
              /\ response.exc # "none"
              /\ raised' = response.exc
              /\ requests' = requests + (IF response.sent THEN 1 ELSE 0)
    /\ cpc' = "raised"
    /\ UNCHANGED <<pc, cfgvars, mainvars>>
    /\ UNCHANGED <<urls, seen_urls, sidx, soup, extracted_url, calls, served>>
    /\ UNCHANGED <<pacevars, corpusvars>>

\* lines 283-288: the response arrives; a response that is not ok is
\* skipped, otherwise the document is parsed and the first link extracted
ForFetchReturns ==
    /\ cpc = "for"
    /\ sidx <= Len(SeedUrls) /\ Len(urls) < TargetsNeeded
    /\ \E outcome \in SeedOutcomes(SeedUrls[sidx], fields) :
          \E response \in {MakeRequest(SeedUrls[sidx], fields, outcome)} :
              /\ response.exc = "none"
              /\ IF ~ResponseOk(response.status)
                 THEN /\ sidx' = sidx + 1
                      /\ UNCHANGED <<cpc, soup, extracted_url, served>>
                 ELSE /\ soup' = response.soup
                      /\ extracted_url' = ExtractUrl(response.soup)
                      /\ served' = Append(served, response.soup)
                      /\ cpc' = "while"
                      /\ UNCHANGED sidx
    /\ requests' = requests + 1
    /\ UNCHANGED <<pc, raised, cfgvars, mainvars>>
    /\ UNCHANGED <<urls, seen_urls, calls>>
    /\ iterations' = 0
    /\ UNCHANGED <<sleeps, corpusvars>>

\* lines 290-293 without the target test of the while condition
WhileIterateUncapped ==
    /\ cpc = "while"
    /\ extracted_url # ""
    /\ urls' = IF ~Contains(extracted_url, "problematic_article_id=3")
               THEN Append(urls, extracted_url)
               ELSE urls
    /\ extracted_url' = ExtractUrl(soup)
    /\ UNCHANGED <<pc, raised, requests, cfgvars, mainvars>>
    /\ UNCHANGED <<seen_urls, cpc, sidx, soup, calls, served>>
    /\ iterations' = (iterations + 1) % (MaxIterations + 1)
    /\ UNCHANGED <<sleeps, corpusvars>>

\* lines 290-293: one iteration of the while loop
WhileIterate ==
    /\ cpc = "while"
    /\ extracted_url # "" /\ Len(urls) < TargetsNeeded
    /\ urls' = IF ~Contains(extracted_url, "problematic_article_id=3")
               THEN Append(urls, extracted_url)
               ELSE urls
    /\ extracted_url' = ExtractUrl(soup)
    /\ UNCHANGED <<pc, raised, requests, cfgvars, mainvars>>
    /\ UNCHANGED <<seen_urls, cpc, sidx, soup, calls, served>>
    /\ iterations' = (iterations + 1) % (MaxIterations + 1)
    /\ UNCHANGED <<sleeps, corpusvars>>

\* line 290: the while condition is false, on to the next seed
WhileExit ==
    /\ cpc = "while"
    /\ ~(extracted_url # "" /\ Len(urls) < TargetsNeeded)
    /\ sidx' = sidx + 1
    /\ cpc' = "for"
    /\ UNCHANGED <<pc, raised, requests, cfgvars, mainvars>>
    /\ UNCHANGED <<urls, seen_urls, soup, extracted_url, calls, served>>
    /\ UNCHANGED <<pacevars, corpusvars>>

(***************************************************************************)
(* main                                                                    *)
(***************************************************************************)
\* line 440: prepare_environment(ASSETS_PATH)
MainPrepare ==
    /\ pc = "prepare"
    /\ pc' = "crawl"
    /\ saved' = <<>>
    /\ UNCHANGED <<raised, requests, aidx, answered, cfgvars, crawlvars>>
    /\ UNCHANGED <<pacevars, corpusvars>>

\* line 440: shutil.rmtree or mkdir fails
MainPrepareRaises ==
    /\ pc = "prepare"
    /\ raised' = "OSError"
    /\ pc' = "aborted"
    /\ UNCHANGED <<requests, cfgvars, crawlvars, mainvars>>
    /\ UNCHANGED <<pacevars, corpusvars>>

\* lines 441-442: Crawler(configuration) and the call of find_articles
MainFindArticles ==
    /\ pc = "crawl" /\ cpc = "idle"
    /\ urls' = <<>>
    /\ seen_urls' = {}
    /\ sidx' = 1
    /\ cpc' = "for"
    /\ calls' = calls + 1
    /\ UNCHANGED <<pc, raised, requests, soup, extracted_url, served>>
    /\ UNCHANGED <<cfgvars, mainvars>>
    /\ UNCHANGED <<pacevars, corpusvars>>

\* find_articles raised: the exception leaves main
MainCrawlRaised ==
    /\ pc = "crawl" /\ cpc = "raised"
    /\ pc' = "aborted"
    /\ UNCHANGED <<raised, requests, cfgvars, crawlvars, mainvars>>
    /\ UNCHANGED <<pacevars, corpusvars>>

\* line 444: find_articles returned, the loop over crawler.urls starts
MainCrawlReturned ==
    /\ pc = "crawl" /\ cpc = "returned"
    /\ pc' = "parse"
    /\ aidx' = 1
    /\ UNCHANGED <<raised, requests, saved, answered, cfgvars, crawlvars>>
    /\ UNCHANGED <<pacevars, corpusvars>>

\* the loop of lines 444-453 with enumerate counting from 0
MainParseArticleFromZero ==
    /\ pc = "parse"
    /\ aidx <= Len(urls)
    /\ \E outcome \in ArticleOutcomes(urls[aidx], fields) :
          \E article \in {Parse(urls[aidx], fields, outcome)} :
              /\ answered' = Append(answered, outcome)
              /\ requests' = requests + (IF outcome = NotSent THEN 0 ELSE 1)
              /\ IF article.raised # "none"
                 THEN /\ raised' = article.raised
                      /\ pc' = "aborted"
                      /\ UNCHANGED <<aidx, saved>>
                 ELSE /\ saved' = Append(saved, [article_id |-> aidx - 1,
                                                 url |-> urls[aidx],
                                                 text |-> article.text])
                      /\ aidx' = aidx + 1
                      /\ UNCHANGED <<pc, raised>>
    /\ UNCHANGED <<cfgvars, crawlvars>>
    /\ UNCHANGED <<pacevars, corpusvars>>

\* lines 444-453: one iteration: HTMLParser(url, article_id, config).parse()
\* and to_raw(article)
MainParseArticle ==
    /\ pc = "parse"
    /\ aidx <= Len(urls)
    /\ \E outcome \in ArticleOutcomes(urls[aidx], fields) :
          \E article \in {Parse(urls[aidx], fields, outcome)} :
              /\ answered' = Append(answered, outcome)
              /\ requests' = requests + (IF outcome = NotSent THEN 0 ELSE 1)
              /\ IF article.raised # "none"
                 THEN /\ raised' = article.raised
                      /\ pc' = "aborted"
                      /\ UNCHANGED <<aidx, saved>>
                 ELSE /\ saved' = Append(saved, [article_id |-> aidx,
                                                 url |-> urls[aidx],
                                                 text |-> article.text])
                      /\ aidx' = aidx + 1
                      /\ UNCHANGED <<pc, raised>>
    /\ UNCHANGED <<cfgvars, crawlvars>>
    /\ UNCHANGED <<pacevars, corpusvars>>

\* line 444: crawler.urls is exhausted
MainDone ==
    /\ pc = "parse"
    /\ aidx > Len(urls)
    /\ pc' = "done"
    /\ UNCHANGED <<raised, requests, cfgvars, crawlvars, mainvars>>
    /\ UNCHANGED <<pacevars, corpusvars>>

(***************************************************************************)
(* A run of main.                                                          *)
(***************************************************************************)
Init ==
    /\ file \in MainDocs
    /\ writes = 0
    /\ pc = "config_extract"
    /\ config = NoDTO
    /\ config_dto = NoDTO
    /\ raised = "none"
    /\ fields = NoDTO
    /\ urls = <<>>
    /\ seen_urls = {}
    /\ cpc = "idle"
    /\ sidx = 1
    /\ soup = EmptyDocument
    /\ extracted_url = ""
    /\ calls = 0
    /\ requests = 0
    /\ served = <<>>
    /\ aidx = 1
    /\ saved = <<>>
    /\ answered = <<>>
    /\ iterations = 0
    /\ sleeps = 0
    /\ dataset = NoDataset
    /\ storage = {}

Next ==
    \/ ConfigExtract
    \/ ConfigSourceWrite
    \/ ConfigValidate
    \/ MainPrepare
    \/ MainPrepareRaises
    \/ MainFindArticles
    \/ ForExit
    \/ ForFetchRaises
    \/ ForFetchReturns
    \/ WhileIterate
    \/ WhileExit
    \/ MainCrawlRaised
    \/ MainCrawlReturned
    \/ MainParseArticle
    \/ MainDone

Spec == Init /\ [][Next]_vars

(***************************************************************************)
(* Config construction over a wide family of configuration documents: the  *)
(* product of the value classes of each key, and sweeps of the two numeric *)
(* keys over a range around their limits.  The source is not rewritten.    *)
(***************************************************************************)
SeedUrlsValues ==
    {JList(<<JStr(SeedNews)>>), JList(<<JStr(SeedNews), JStr("klops.ru/news")>>),
     JList(<<JStr("https://klops.ru")>>), JList(<<JInt(5)>>), JList(<<>>),
     JStr(SeedNews), Absent}
HeadersValues ==
    {GoodHeaders, JDict(<< <<"X-Trace", JStr("a\nInjected: b")>> >>),
     CountHeaders, JDict(<< <<"X-Skip", JNull>> >>),
     JStr("User-Agent: Mozilla/5.0"), Absent}
TotalValues ==
    {JInt(0), JInt(1), JInt(150), JInt(151), JStr("10"), JBool(TRUE),
     JFloat("10.5"), Absent}
EncodingValues == {JStr("utf-8"), JInt(8), Absent}
TimeoutValues ==
    {JInt(0), JInt(59), JInt(60), JStr("5"), JBool(TRUE), JNull, Absent}
VerifyValues == {JBool(TRUE), JInt(1), Absent}
HeadlessValues == {JBool(FALSE), JStr("yes"), Absent}

ConfigDocs ==
    {Document(s, n, h, e, t, v, m) :
        s \in SeedUrlsValues, n \in TotalValues, h \in HeadersValues,
        e \in EncodingValues, t \in TimeoutValues, v \in VerifyValues,
        m \in HeadlessValues}
    \cup {ValidDocument(<<JStr(SeedNews)>>, n) : n \in (1 - ProbeMargin)..(NUM_ARTICLES_UPPER_LIMIT + ProbeMargin)}
    \cup {[ValidDocument(<<JStr(SeedNews)>>, 2) EXCEPT !.timeout = JInt(t)] :
             t \in (TIMEOUT_LOWER_LIMIT - ProbeMargin)..(TIMEOUT_UPPER_LIMIT + ProbeMargin)}
    \cup {Unreadable}

InitConfig ==
    /\ file \in ConfigDocs
    /\ writes = 0
    /\ pc = "config_extract"
    /\ config = NoDTO
    /\ config_dto = NoDTO
    /\ raised = "none"
    /\ fields = NoDTO
    /\ urls = <<>>
    /\ seen_urls = {}
    /\ cpc = "idle"
    /\ sidx = 1
    /\ soup = EmptyDocument
    /\ extracted_url = ""
    /\ calls = 0
    /\ requests = 0
    /\ served = <<>>
    /\ aidx = 1
    /\ saved = <<>>
    /\ answered = <<>>
    /\ iterations = 0
    /\ sleeps = 0
    /\ dataset = NoDataset
    /\ storage = {}

NextConfig ==
    \/ ConfigExtract
    \/ ConfigValidate

SpecConfig == InitConfig /\ [][NextConfig]_vars

(***************************************************************************)
(* A Crawler over a validated Config, find_articles called repeatedly.     *)
(***************************************************************************)
\* the largest total_articles_to_find_and_parse of the crawls explored
MaxTarget == 3
\* the number of find_articles calls on one Crawler
MaxCalls == 2

CrawlSeedLists ==
    {<<>>, <<JStr(SeedNews)>>, <<JStr(SeedNews), JStr(SeedSport)>>}

\* the configurations of the crawls: those requests takes, and three the
\* validation accepts and requests refuses, for the timeout, for a header
\* and for a seed URL without host
CrawlDocs ==
    {ValidDocument(seeds, n) : seeds \in CrawlSeedLists, n \in 1..MaxTarget}
    \cup {[ValidDocument(<<JStr(SeedNews)>>, 1) EXCEPT !.timeout = JBool(TRUE)],
          [ValidDocument(<<JStr(SeedNews)>>, 1) EXCEPT !.headers = CountHeaders],
          ValidDocument(<<JStr("http://:80/"), JStr(SeedNews)>>, 1)}

\* the caller calls find_articles (again), also after it raised
CallFindArticles ==
    /\ pc = "crawler"
    /\ cpc \in {"idle", "returned", "raised"}
    /\ calls < MaxCalls
    /\ calls' = calls + 1
    /\ sidx' = 1
    /\ cpc' = "for"
    /\ raised' = "none"
    /\ UNCHANGED <<pc, requests, cfgvars, mainvars>>
    /\ UNCHANGED <<urls, seen_urls, soup, extracted_url, served>>
    /\ UNCHANGED <<pacevars, corpusvars>>

InitCrawler ==
    /\ file \in CrawlDocs
    /\ config = ExtractConfigContent(file)
    /\ config_dto = config
    /\ fields = config
    /\ writes = 0
    /\ pc = "crawler"
    /\ raised = "none"
    /\ urls = <<>>
    /\ seen_urls = {}
    /\ cpc = "idle"
    /\ sidx = 1
    /\ soup = EmptyDocument
    /\ extracted_url = ""
    /\ calls = 0
    /\ requests = 0
    /\ served = <<>>
    /\ aidx = 1
    /\ saved = <<>>
    /\ answered = <<>>
    /\ iterations = 0
    /\ sleeps = 0
    /\ dataset = NoDataset
    /\ storage = {}

NextCrawler ==
    \/ CallFindArticles
    \/ ForExit
    \/ ForFetchRaises
    \/ ForFetchReturns
    \/ WhileIterate
    \/ WhileExit

SpecCrawler == InitCrawler /\ [][NextCrawler]_vars

\* find_articles runs on one thread that executes its next statement for as
\* long as it has one, and a request ends by returning or raising within
\* the configured timeout
FindArticlesStep ==
    ForExit \/ ForFetchRaises \/ ForFetchReturns \/ WhileIterate \/ WhileExit

SpecCrawlerFair ==
    InitCrawler /\ [][NextCrawler]_vars /\ WF_vars(FindArticlesStep)

(***************************************************************************)
(* The extraction loop of main over any list of discovered URLs.           *)
(***************************************************************************)
\* the longest list of discovered URLs explored
MaxArticles == 2

ArticleUrls ==
    {"https://klops.ru/news/1", "HTTP://Klops.ru:080/news/../5", "https://klops.ru",
     "httpx-no-scheme", "httpx://klops.ru/a", "http://:80/a",
     "https://klops.ru:abc/a"}

\* configurations the validation accepts: one requests takes, one whose
\* timeout and one whose headers it refuses
ParserDocs ==
    {ValidDocument(<<JStr(SeedNews)>>, MaxArticles),
     [ValidDocument(<<JStr(SeedNews)>>, MaxArticles) EXCEPT !.timeout = JBool(TRUE)],
     [ValidDocument(<<JStr(SeedNews)>>, MaxArticles) EXCEPT !.headers = CountHeaders]}

UrlLists ==
    UNION {[1..n -> ArticleUrls] : n \in 0..MaxArticles}

InitParser ==
    /\ file \in ParserDocs
    /\ config = ExtractConfigContent(file)
    /\ config_dto = config
    /\ fields = config
    /\ writes = 0
    /\ pc = "parse"
    /\ raised = "none"
    /\ urls \in UrlLists
    /\ seen_urls = {}
    /\ cpc = "returned"
    /\ sidx = 1
    /\ soup = EmptyDocument
    /\ extracted_url = ""
    /\ calls = 1
    /\ requests = 0
    /\ served = <<>>
    /\ aidx = 1
    /\ saved = <<>>
    /\ answered = <<>>
    /\ iterations = 0
    /\ sleeps = 0
    /\ dataset = NoDataset
    /\ storage = {}

NextParser ==
    \/ MainParseArticle
    \/ MainDone

SpecParser == InitParser /\ [][NextParser]_vars

(***************************************************************************)
(* lab_6_pipeline/pipeline.py: CorpusManager over a path of the file       *)
(* system. A dataset is what the path holds: nothing, a regular file, or a *)
(* directory of entries with a name and a size.                            *)
(***************************************************************************)
\* glob('*_raw.txt') on one entry name
GlobRawTxt(name) == EndsWith(name, "_raw.txt")

\* the length of the longest prefix of digits, what a greedy \d+ takes
RECURSIVE DigitsPrefixLen(_)
DigitsPrefixLen(s) ==
    IF Len(s) > 0 /\ IsDigit(SubSeq(s, 1, 1))
    THEN 1 + DigitsPrefixLen(SubSeq(s, 2, Len(s)))
    ELSE 0

\* re.match(r'(\d+)_raw\.txt', name): anchored at the start of the name only;
\* giving digits back cannot help, the next character has to be "_"
MatchRawId(name) ==
    LET n == DigitsPrefixLen(name)
    IN  IF n > 0 /\ StartsWith(SubSeq(name, n + 1, Len(name)), "_raw.txt")
        THEN [matched |-> TRUE, id |-> ParseInt(SubSeq(name, 1, n))]
        ELSE [matched |-> FALSE, id |-> 0]

\* the entries glob yields, in the order the file system lists them
RECURSIVE Listing(_)
Listing(entries) ==
    IF entries = {} THEN <<>>
    ELSE LET e == CHOOSE x \in entries : TRUE
         IN  <<e>> \o Listing(entries \ {e})

Glob(ds) == Listing({e \in ds.files : GlobRawTxt(e.name)})

\* sorted() on a list of integers
RECURSIVE Sorted(_)
Sorted(ids) ==
    IF Len(ids) = 0 THEN <<>>
    ELSE LET least == CHOOSE i \in 1..Len(ids) :
                         \A j \in 1..Len(ids) : ids[i] <= ids[j]
         IN  <<ids[least]>> \o
             Sorted([k \in 1..(Len(ids) - 1) |->
                        IF k < least THEN ids[k] ELSE ids[k + 1]])

\* lines 67-73: ids = [] and the loop over files; the ids collected, and whether it raised
\* on a matching file of size 0
RECURSIVE CollectIds(_, _)
CollectIds(files, ids) ==
    IF Len(files) = 0 THEN [raised |-> FALSE, ids |-> ids]
    ELSE LET entry == Head(files)
             match == MatchRawId(entry.name)
         IN  IF match.matched
             THEN IF entry.size = 0
                  THEN [raised |-> TRUE, ids |-> Append(ids, match.id)]
                  ELSE CollectIds(Tail(files), Append(ids, match.id))
             ELSE CollectIds(Tail(files), ids)

\* the loop of lines 68-73 without the size test of line 72
RECURSIVE CollectIdsAnySize(_, _)
CollectIdsAnySize(files, ids) ==
    IF Len(files) = 0 THEN [raised |-> FALSE, ids |-> ids]
    ELSE LET match == MatchRawId(Head(files).name)
         IN  IF match.matched
             THEN CollectIdsAnySize(Tail(files), Append(ids, match.id))
             ELSE CollectIdsAnySize(Tail(files), ids)

\* _validate_dataset with the loop that does not test the size
ValidateDatasetAnySize(ds) ==
    IF ds.kind = "absent" THEN "FileNotFoundError"
    ELSE IF ds.kind # "dir" THEN "NotADirectoryError"
    ELSE LET files == Glob(ds)
         IN  IF Len(files) = 0 THEN "EmptyDirectoryError"
             ELSE LET loop == CollectIdsAnySize(files, <<>>)
                  IN  IF loop.raised THEN "InconsistentDatasetError"
                      ELSE IF Len(loop.ids) = 0 THEN "InconsistentDatasetError"
                      ELSE IF Sorted(loop.ids) # [i \in 1..Len(loop.ids) |-> i]
                      THEN "InconsistentDatasetError"
                      ELSE "ok"

\* lines 53-79: _validate_dataset, the kind it raises or "ok"
ValidateDataset(ds) ==
    IF ds.kind = "absent" THEN "FileNotFoundError"
    ELSE IF ds.kind # "dir" THEN "NotADirectoryError"
    ELSE LET files == Glob(ds)
         IN  IF Len(files) = 0 THEN "EmptyDirectoryError"
             ELSE LET loop == CollectIds(files, <<>>)
                  IN  IF loop.raised THEN "InconsistentDatasetError"
                      ELSE IF Len(loop.ids) = 0 THEN "InconsistentDatasetError"
                      ELSE IF Sorted(loop.ids) # [i \in 1..Len(loop.ids) |-> i]
                      THEN "InconsistentDatasetError"
                      ELSE "ok"

\* lines 81-88: _scan_dataset, the keys of _storage after it
RECURSIVE ScanDataset(_, _)
ScanDataset(files, keys) ==
    IF Len(files) = 0 THEN keys
    ELSE LET match == MatchRawId(Head(files).name)
         IN  ScanDataset(Tail(files),
                         IF match.matched THEN keys \cup {match.id} ELSE keys)

\* the entry names a directory is built from
EntryNames ==
    {"1_raw.txt", "2_raw.txt", "3_raw.txt", "01_raw.txt", "abc_raw.txt",
     "1_meta.json", "2_raw.txt_raw.txt"}
\* every directory of some of the entries, each of them empty or 5 bytes long
Directories ==
    {[kind |-> "dir",
      files |-> {[name |-> n, size |-> IF n \in empties THEN 0 ELSE 5] : n \in names}] :
        <<names, empties>> \in {<<ns, es>> \in (SUBSET EntryNames) \X (SUBSET EntryNames) :
                                   es \subseteq ns}}

Datasets ==
    Directories \cup {[kind |-> "absent", files |-> {}], [kind |-> "file", files |-> {}]}

\* lines 48-50: CorpusManager(path) up to the end of _validate_dataset
CorpusValidateDataset ==
    /\ pc = "corpus_validate"
    /\ LET verdict == ValidateDataset(dataset)
       IN  IF verdict = "ok"
           THEN pc' = "corpus_scan" /\ UNCHANGED raised
           ELSE pc' = "aborted" /\ raised' = verdict
    /\ UNCHANGED <<storage, dataset, requests, pacevars>>
    /\ UNCHANGED <<cfgvars, crawlvars, mainvars>>

\* line 51: _scan_dataset fills _storage, the constructor returns
CorpusScanDataset ==
    /\ pc = "corpus_scan"
    /\ storage' = ScanDataset(Glob(dataset), {})
    /\ pc' = "corpus_ready"
    /\ UNCHANGED <<dataset, raised, requests, pacevars>>
    /\ UNCHANGED <<cfgvars, crawlvars, mainvars>>

InitCorpus ==
    /\ dataset \in Datasets
    /\ storage = {}
    /\ pc = "corpus_validate"
    /\ raised = "none"
    /\ file = Unreadable
    /\ writes = 0
    /\ config = NoDTO /\ config_dto = NoDTO /\ fields = NoDTO
    /\ urls = <<>> /\ seen_urls = {} /\ cpc = "idle" /\ sidx = 1
    /\ soup = EmptyDocument /\ extracted_url = ""
    /\ calls = 0 /\ requests = 0 /\ served = <<>>
    /\ aidx = 1 /\ saved = <<>> /\ answered = <<>>
    /\ iterations = 0 /\ sleeps = 0

NextCorpus == CorpusValidateDataset \/ CorpusScanDataset

SpecCorpus == InitCorpus /\ [][NextCorpus]_vars

(***************************************************************************)
(* Properties.                                                             *)
(***************************************************************************)

\* C1: HTMLParser.parse never raises and returns an Article whose text has
\* at least 50 characters, for every URL and every outcome of the fetch: a
\* response with any document, an error status, a transport failure.
ParseReturnsMinimumText ==
    /\ raised = "none"
    /\ Len(saved) = Len(answered)
    /\ \A i \in 1..Len(saved) : Len(saved[i].text) >= 50

\* parse has acted on a transport failure and on an empty document
ParseFailedAndEmptyFetched ==
    /\ Len(saved) = 2
    /\ answered[1] = TransportError("")
    /\ answered[2] = Response(200, "OK", EmptyDocument)

\* C2: a seed whose fetch fails is skipped: find_articles does not raise,
\* goes on with the next seed and leaves the URLs collected so far as they
\* are.
FailedSeedIsSkipped ==
    [][(cpc = "for" /\ requests' = requests + 1 /\ served' = served)
          => (cpc' = "for" /\ sidx' = sidx + 1 /\ urls' = urls /\ raised' = raised)]_vars

\* C3: Crawler.urls never holds a URL twice.
UrlsHasNoDuplicates ==
    \A i, j \in 1..Len(urls) : i # j => urls[i] # urls[j]

\* C4: len(Crawler.urls) never exceeds the configured number of articles,
\* during a find_articles call, after it and over repeated calls.
UrlsWithinTarget == Len(urls) <= TargetsNeeded

\* a second call of find_articles fills urls up to the target after a first
\* call that found nothing
SecondCallReachesTarget ==
    /\ calls = 2 /\ cpc = "returned"
    /\ Len(served) = 2 /\ served[1] = PageNoLinks
    /\ TargetsNeeded >= 2 /\ Len(urls) = TargetsNeeded

\* the absolute form of a candidate link, "" when it is not extractable
ResolvedLink(href) ==
    IF StartsWith(href, "/") THEN "https://klops.ru" \o href
    ELSE IF StartsWith(href, "http") THEN href
    ELSE ""

\* the extractable, non-denylisted links of the pages, page by page and in
\* document order within a page
RECURSIVE CandidateLinks(_)
CandidateLinks(pages) ==
    IF Len(pages) = 0 THEN <<>>
    ELSE LET IsCandidate(node) ==
                 /\ node.tag = "a" /\ node.has_href
                 /\ ResolvedLink(node.href) # ""
                 /\ ~Contains(ResolvedLink(node.href), "problematic_article_id=3")
             links == SelectSeq(DescendantsOf(Head(pages).kids), IsCandidate)
         IN  [i \in 1..Len(links) |-> ResolvedLink(links[i].href)]
             \o CandidateLinks(Tail(pages))

\* the first n distinct elements of a sequence, in first-seen order
RECURSIVE FirstDistinct(_, _, _)
FirstDistinct(links, n, taken) ==
    IF Len(links) = 0 \/ Len(taken) >= n THEN taken
    ELSE IF \E i \in 1..Len(taken) : taken[i] = Head(links)
    THEN FirstDistinct(Tail(links), n, taken)
    ELSE FirstDistinct(Tail(links), n, Append(taken, Head(links)))

\* C5: the list find_articles produces is the first min(target, k) distinct
\* extractable candidate links of the seed pages fetched, seed by seed and
\* in document order within a page.
UrlsAreFirstDistinctCandidates ==
    (calls = 1 /\ cpc = "returned")
        => urls = FirstDistinct(CandidateLinks(served), TargetsNeeded, <<>>)

\* C6: for an article page fetched successfully that has no content
\* container and an empty body, parse returns the diagnostic placeholder
\* that contains the source URL; the text is not empty or whitespace-only.
EmptyBodyYieldsUrlPlaceholder ==
    \A i \in 1..Len(saved) :
        (answered[i] \in {Response(200, "OK", ArticleEmptyBody),
                          Response(200, "OK", EmptyDocument)})
            => /\ Contains(saved[i].text, saved[i].url)
               /\ Strip(saved[i].text) # ""

\* the exceptions that abort a run before discovery starts
PreflightErrors ==
    {"IncorrectSeedURLError", "NumberOfArticlesOutOfRangeError",
     "IncorrectNumberOfArticlesError", "IncorrectHeadersError",
     "IncorrectEncodingError", "IncorrectTimeoutError", "IncorrectVerifyError",
     "JSONDecodeError", "OSError"}

\* C7: in a run of main no HTTP request is issued before the validation of
\* the configuration has completed without raising; a run whose Config
\* construction raises issues no request at all.
NoRequestBeforeValidation ==
    /\ requests > 0 =>
          /\ pc \in {"crawl", "parse", "done", "aborted"}
          /\ ValidateConfigContent(config_dto) = "ok"
          /\ fields # NoDTO
    /\ raised \in PreflightErrors => requests = 0

\* a run that validated its configuration, fetched and saved articles
RunFetchedAfterValidation ==
    pc = "done" /\ requests > 1 /\ Len(saved) > 0

\* what Config construction did with a readable source: the kind raised,
\* "ok" when it completed
Constructed == pc \in {"prepare", "aborted"} /\ file.json_ok
ConstructionOutcome == IF pc = "aborted" THEN raised ELSE "ok"

\* the kind of the first failing check of a list of checks, "ok" if none
FirstFailing(checks) ==
    IF \E i \in 1..Len(checks) : checks[i].bad
    THEN checks[CHOOSE i \in 1..Len(checks) :
                   checks[i].bad /\ \A j \in 1..(i - 1) : ~checks[j].bad].kind
    ELSE "ok"

SeedUrlsCheck(dto) ==
    [bad |-> SeedUrlsIncorrect(dto.seed_urls), kind |-> "IncorrectSeedURLError"]
HeadersCheck(dto) ==
    [bad |-> HeadersIncorrect(dto.headers), kind |-> "IncorrectHeadersError"]
TotalChecks(dto) ==
    <<[bad |-> NumberOfArticlesIncorrect(dto.total_articles),
       kind |-> "IncorrectNumberOfArticlesError"],
      [bad |-> /\ ~NumberOfArticlesIncorrect(dto.total_articles)
               /\ NumberOfArticlesOutOfRange(dto.total_articles),
       kind |-> "NumberOfArticlesOutOfRangeError"]>>
LaterChecks(dto) ==
    <<[bad |-> ~IsInstanceStr(dto.encoding), kind |-> "IncorrectEncodingError"],
      [bad |-> TimeoutIncorrect(dto.timeout), kind |-> "IncorrectTimeoutError"],
      [bad |-> ~IsInstanceBool(dto.should_verify_certificate),
       kind |-> "IncorrectVerifyError"],
      [bad |-> ~IsInstanceBool(dto.headless_mode), kind |-> "IncorrectVerifyError"]>>

\* C8 as stated: of several simultaneous defects the kind raised is that of
\* the first failing check in the order seed URLs, headers, total articles
\* (type, then range), encoding, timeout, certificate flag, headless flag.
RaisesFirstFailingSeedUrlsFirst ==
    Constructed =>
        ConstructionOutcome =
            FirstFailing(<<SeedUrlsCheck(config_dto), HeadersCheck(config_dto)>>
                         \o TotalChecks(config_dto) \o LaterChecks(config_dto))

\* C8 amended: the kind raised is that of the first failing check in the
\* order headers, seed URLs, total articles (type, then range), encoding,
\* timeout, certificate flag, headless flag.
RaisesFirstFailingHeadersFirst ==
    Constructed =>
        ConstructionOutcome =
            FirstFailing(<<HeadersCheck(config_dto), SeedUrlsCheck(config_dto)>>
                         \o TotalChecks(config_dto) \o LaterChecks(config_dto))

\* a configuration with defective headers, seed URLs and timeout was rejected
ThreeDefectsRejected ==
    /\ Constructed
    /\ HeadersIncorrect(config_dto.headers)
    /\ SeedUrlsIncorrect(config_dto.seed_urls)
    /\ TimeoutIncorrect(config_dto.timeout)
    /\ raised = "IncorrectHeadersError"

\* C9: when Config construction completes, the seven values the getters
\* return are the values the validation examined and accepted.
GettersReturnValidatedValues ==
    fields # NoDTO => fields = config_dto

\* every field but total_articles is valid
OtherFieldsValid(dto) ==
    /\ dto.seed_urls.t = "list" /\ Len(dto.seed_urls.v) > 0
    /\ \A i \in 1..Len(dto.seed_urls.v) :
          dto.seed_urls.v[i].t = "str" /\ MatchesUrlPattern(dto.seed_urls.v[i].v)
    /\ dto.headers.t = "dict"
    /\ \A i \in 1..Len(dto.headers.v) :
          dto.headers.v[i][2].t = "str" /\ ~Contains(dto.headers.v[i][2].v, "\n")
    /\ dto.encoding.t = "str"
    /\ dto.timeout.t = "int" /\ 0 < dto.timeout.v /\ dto.timeout.v < 60
    /\ dto.should_verify_certificate.t = "bool"
    /\ dto.headless_mode.t = "bool"

\* C10: with the other fields valid, a total_articles_to_find_and_parse
\* that is not an integer, is a boolean or is below 1 raises
\* IncorrectNumberOfArticlesError, an integer above 150 raises
\* NumberOfArticlesOutOfRangeError, and every integer in 1..150 is accepted.
NumberOfArticlesVerdict ==
    (Constructed /\ OtherFieldsValid(config_dto)) =>
        LET total == config_dto.total_articles
        IN  ConstructionOutcome =
                IF total.t # "int" THEN "IncorrectNumberOfArticlesError"
                ELSE IF total.v < 1 THEN "IncorrectNumberOfArticlesError"
                ELSE IF total.v > 150 THEN "NumberOfArticlesOutOfRangeError"
                ELSE "ok"

\* 151 articles were asked for in an otherwise valid configuration
TotalOfOneHundredFiftyOneRejected ==
    /\ Constructed /\ OtherFieldsValid(config_dto)
    /\ config_dto.total_articles = JInt(151)
    /\ raised = "NumberOfArticlesOutOfRangeError"

\* the fields of a configuration as its author would judge them
SeedUrlsAcceptable(dto) ==
    /\ dto.seed_urls.t = "list" /\ Len(dto.seed_urls.v) > 0
    /\ \A i \in 1..Len(dto.seed_urls.v) :
          dto.seed_urls.v[i].t = "str" /\ MatchesUrlPattern(dto.seed_urls.v[i].v)
HeadersAcceptable(dto) ==
    /\ dto.headers.t = "dict"
    /\ \A i \in 1..Len(dto.headers.v) :
          dto.headers.v[i][2].t = "str" /\ ~Contains(dto.headers.v[i][2].v, "\n")
TotalAcceptable(dto) ==
    /\ dto.total_articles.t = "int"
    /\ 1 <= dto.total_articles.v /\ dto.total_articles.v <= 150
TimeoutAcceptable(dto) ==
    dto.timeout.t = "int" /\ 0 < dto.timeout.v /\ dto.timeout.v < 60
FlagsAndEncodingAcceptable(dto) ==
    /\ dto.encoding.t = "str"
    /\ dto.should_verify_certificate.t = "bool"
    /\ dto.headless_mode.t = "bool"

\* C11: with the other fields valid, construction succeeds exactly when the
\* timeout is an integer t with 0 < t < 60, and raises IncorrectTimeoutError
\* for every other timeout: 0, 60, and every value that is not an integer.
TimeoutVerdict ==
    (/\ Constructed
     /\ SeedUrlsAcceptable(config_dto) /\ HeadersAcceptable(config_dto)
     /\ TotalAcceptable(config_dto) /\ FlagsAndEncodingAcceptable(config_dto)) =>
        ConstructionOutcome = IF TimeoutAcceptable(config_dto)
                              THEN "ok" ELSE "IncorrectTimeoutError"

\* C12: with the other fields valid, construction succeeds exactly when
\* seed_urls is a non-empty list of strings that all match ^https?://.*/ ,
\* and raises IncorrectSeedURLError for a non-list, an empty list and a
\* list with an element that does not match.
SeedUrlsVerdict ==
    (/\ Constructed
     /\ HeadersAcceptable(config_dto) /\ TotalAcceptable(config_dto)
     /\ TimeoutAcceptable(config_dto) /\ FlagsAndEncodingAcceptable(config_dto)) =>
        ConstructionOutcome = IF SeedUrlsAcceptable(config_dto)
                              THEN "ok" ELSE "IncorrectSeedURLError"

\* a name of the form <id>_raw.txt: decimal digits, then _raw.txt, nothing else
NumberedRaw(name) ==
    LET k == Len(name) - Len("_raw.txt")
    IN  /\ k > 0
        /\ EndsWith(name, "_raw.txt")
        /\ \A i \in 1..k : IsDigit(SubSeq(name, i, i))

\* a name that ends in _raw.txt and starts with decimal digits and _raw.txt
NumberedRawPrefix(name) ==
    /\ EndsWith(name, "_raw.txt")
    /\ \E k \in 1..Len(name) :
          /\ \A i \in 1..k : IsDigit(SubSeq(name, i, i))
          /\ SubSeq(name, k + 1, k + Len("_raw.txt")) = "_raw.txt"

\* the digits a name starts with, as an integer
LeadingId(name) ==
    LET k == CHOOSE j \in 0..Len(name) :
                /\ \A i \in 1..j : IsDigit(SubSeq(name, i, i))
                /\ j = Len(name) \/ ~IsDigit(SubSeq(name, j + 1, j + 1))
    IN  ParseInt(SubSeq(name, 1, k))

\* the ids of the entries are 1..n, each once, and no entry is empty
ConsistentEntries(entries) ==
    /\ \A e \in entries : e.size # 0
    /\ \A k \in 1..Cardinality(entries) :
          Cardinality({e \in entries : LeadingId(e.name) = k}) = 1

CorpusConstructed == pc \in {"corpus_ready", "aborted"} /\ dataset # NoDataset

\* C13 as stated: CorpusManager construction raises FileNotFoundError for an
\* absent path, NotADirectoryError for a path that is not a directory,
\* EmptyDirectoryError when no entry is named <id>_raw.txt,
\* InconsistentDatasetError when such an entry is empty or their ids are not
\* 1..n, and otherwise succeeds with get_articles() keyed by exactly 1..n.
CorpusClassifiedByNumberedFiles ==
    CorpusConstructed =>
        LET matching == {e \in dataset.files : NumberedRaw(e.name)}
        IN  /\ ConstructionOutcome =
                  IF dataset.kind = "absent" THEN "FileNotFoundError"
                  ELSE IF dataset.kind # "dir" THEN "NotADirectoryError"
                  ELSE IF matching = {} THEN "EmptyDirectoryError"
                  ELSE IF ~ConsistentEntries(matching) THEN "InconsistentDatasetError"
                  ELSE "ok"
            /\ pc = "corpus_ready" => storage = 1..Cardinality(matching)

\* C13 as the code has it: EmptyDirectoryError is for a directory with no
\* entry whose name ends in _raw.txt; when there are such entries, the
\* numbered ones are those that start with digits and _raw.txt, and
\* InconsistentDatasetError is raised when none is numbered, a numbered one
\* is empty or the ids are not 1..n; otherwise construction succeeds with
\* get_articles() keyed by exactly 1..n.
CorpusClassifiedByGlobThenNumber ==
    CorpusConstructed =>
        LET globbed == {e \in dataset.files : EndsWith(e.name, "_raw.txt")}
            numbered == {e \in globbed : NumberedRawPrefix(e.name)}
        IN  /\ ConstructionOutcome =
                  IF dataset.kind = "absent" THEN "FileNotFoundError"
                  ELSE IF dataset.kind # "dir" THEN "NotADirectoryError"
                  ELSE IF globbed = {} THEN "EmptyDirectoryError"
                  ELSE IF numbered = {} THEN "InconsistentDatasetError"
                  ELSE IF ~ConsistentEntries(numbered) THEN "InconsistentDatasetError"
                  ELSE "ok"
            /\ pc = "corpus_ready" => storage = 1..Cardinality(numbered)

\* a directory whose only *_raw.txt entry has no number was rejected as
\* inconsistent
UnnumberedRawFileIsInconsistent ==
    /\ CorpusConstructed
    /\ {e.name : e \in dataset.files} = {"abc_raw.txt", "1_meta.json"}
    /\ \A e \in dataset.files : e.size # 0
    /\ raised = "InconsistentDatasetError"

\* C14: every call of find_articles ends, by returning or by raising,
\* whatever the seed pages hold, denylisted links included.
FindArticlesTerminates ==
    (cpc = "for") ~> (cpc \in {"returned", "raised"})

\* C15: within one call of find_articles every seed-page request after the
\* first comes after a sleep of its own, so the requests made never exceed
\* the sleeps made by more than one.
SeedFetchesArePaced ==
    (pc = "crawler" /\ calls = 1) => requests <= sleeps + 1

\* C16: to_raw is called once for every entry of crawler.urls, in the order
\* of the list, the k-th call with article id k and the k-th URL; when the
\* run has ended there are as many calls as entries, so the ids are 1..n.
ToRawOncePerUrlInOrder ==
    /\ Len(saved) <= Len(urls)
    /\ \A k \in 1..Len(saved) :
          saved[k].article_id = k /\ saved[k].url = urls[k]
    /\ pc \in {"done", "aborted"} => Len(saved) = Len(urls)

\* a run has ended after two articles, the first of which could not be
\* fetched and was saved with the placeholder text
FailedArticleSavedWithItsId ==
    /\ pc = "done"
    /\ Len(urls) = 2 /\ Len(saved) = 2
    /\ answered[1].kind = "transport"
    /\ StartsWith(saved[1].text, "Error parsing article")
    /\ answered[2] = Response(200, "OK", ArticleWithBodyDiv)

====
